---------------------------- MODULE Spec2Model ----------------------------
(***************************************************************************)
(* A model of the decorator examples of angular-decorators-NG-Kenya-2025.  *)
(*                                                                         *)
(* Three independent state machines share the module, one specification    *)
(* each:                                                                   *)
(*   SpecDebounce  the two debounce code labs (DebounceLegacy on            *)
(*                 LegacySearchComponent.onSearch, Debounce on              *)
(*                 ModernSearchComponent.onSearch), the timer table of the  *)
(*                 event loop and a clock;                                  *)
(*   SpecCache     the Cache / CacheResult memoizing wrappers;              *)
(*   SpecLog       the LogMethod / MeasureTime wrappers of decorators.ts.   *)
(*                                                                         *)
(* The new-API files are written against the stage-3 decorator calling     *)
(* convention (decorator(value, context)); the context object a method     *)
(* decorator receives has the fields kind, name, static, private, access,  *)
(* addInitializer and metadata, and no field "value".                      *)
(***************************************************************************)
EXTENDS Integers, Sequences, FiniteSets, TLC

(***************************************************************************)
(* Bounds of the model.                                                    *)
(***************************************************************************)
MaxDelay == 1
MaxTime == 3
MaxCalls == 3
MaxCacheCalls == 3
MaxLogCalls == 2
MaxDestroy == 2
MaxPermCalls == 2
MaxMixinCalls == 2
MaxComposeCalls == 3
MaxSignalOps == 4

(***************************************************************************)
(* JavaScript values the model needs.                                      *)
(***************************************************************************)
Undefined == "undefined"

\* The two debounce code labs; each is a program of its own:
\* "legacy" declares DebounceLegacy and LegacySearchComponent, "modern"
\* declares Debounce and ModernSearchComponent.
Labs == {"legacy", "modern"}

\* Instances of the decorated class (the labs create one; a class may have more).
Instances == {"a", "b"}

\* Argument lists a caller passes to onSearch.
ArgLists == {<<"test1">>, <<"test2">>}

VARIABLES
    lab,          \* which of the two labs this run executes
    now,          \* the clock of the event loop
    ms,           \* the delay the decorator factory was called with
    timeoutId,    \* the closure variable `let timeoutId` of the decorator
    timers,       \* the event loop's table of scheduled, not yet fired timers
    nextTimerId,  \* the handle the next setTimeout returns
    calls,        \* history: the wrapper calls made so far
    fired,        \* history: the timer callbacks run so far
    invoked,      \* history: the invocations of the original onSearch
    console,      \* console.log output
    uncaught      \* exceptions thrown out of timer callbacks

VARIABLES
    cache,        \* the Map objects: one per @Cache application, one module-wide
    cacheCalls    \* history: the calls of cache-wrapped methods

VARIABLES
    stack,        \* the method decorators written above fetchData, top first
    defined,      \* whether the class definition has been evaluated
    proto,        \* the function ExampleService.prototype.fetchData holds
    initializers, \* the initializers registered through context.addInitializer
    own,          \* per instance: its own property fetchData, once constructed
    logConsole,   \* console.log output of the main example
    logCalls,     \* history: the calls of inst.fetchData
    ctor          \* the value the name ExampleService is bound to

VARIABLES
    twin          \* the modern lab's histories when it runs beside the legacy lab

VARIABLES
    hasDestroy,   \* whether the decorated class declares ngOnDestroy itself
    fields,       \* per instance: its own properties, in creation order
    destroyed     \* history: the calls of inst.ngOnDestroy

VARIABLES
    required,     \* the permission RequirePermission was called with
    granted,      \* the permissions PermissionService grants at present
    permCalls     \* history: the calls of inst.deleteUser

VARIABLES
    build,        \* what the build makes of the name of an anonymous class
    decorated,    \* the decorated class of the mixin example that runs
    props,        \* the own properties of the mixin example's instance
    mixinCalls    \* history: the calls of toJSON, debug and getInfo

VARIABLES
    signal,       \* the closure of one SimpleSignal: value and listeners
    signalLog     \* history: the calls of effect, set and the signal itself

VARIABLES
    composeApi,   \* which variant of Log and Cache decorates the method
    composeCalls  \* history: the calls of the method under @Log and @Cache

debounceVars == <<lab, now, ms, timeoutId, timers, nextTimerId, calls, fired,
                  invoked, console, uncaught>>

cacheVars == <<cache, cacheCalls>>

logVars == <<stack, defined, proto, initializers, own, logConsole, logCalls,
             ctor>>

twinVars == <<twin>>

teardownVars == <<hasDestroy, fields, destroyed>>

permVars == <<required, granted, permCalls>>

mixinVars == <<build, decorated, props, mixinCalls>>

composeVars == <<composeApi, composeCalls>>

signalVars == <<signal, signalLog>>

\* The variables of the examples that stand apart from the debounce labs, the
\* cache examples and the main example.
moreVars == <<twinVars, teardownVars, permVars, mixinVars, composeVars,
             signalVars>>

vars == <<debounceVars, cacheVars, logVars, moreVars>>

(***************************************************************************)
(* The method decorator context of the new API, as the runtime builds it   *)
(* for `@Debounce(300) onSearch`.                                          *)
(***************************************************************************)
MethodContext(name) ==
    [kind |-> "method", name |-> name, static |-> FALSE, private |-> FALSE]

\* Property read obj.key: undefined when the object has no such property.
GetProp(obj, key) == IF key \in DOMAIN obj THEN obj[key] ELSE Undefined

\* A clearTimeout that cancels nothing (the wrapper forgetting to cancel).
clearTimeoutNothing(table, id) == table

(***************************************************************************)
(* clearTimeout(id): removes the timer with that handle, if it is still    *)
(* scheduled; undefined or a stale handle removes nothing.  The variable   *)
(* timeoutId holds <<>> while it is undefined and <<h>> once it holds the  *)
(* handle h.                                                               *)
(***************************************************************************)
clearTimeout(table, id) == {t \in table : <<t.id>> # id}

\* A setTimeout that ignores the delay.
setTimeoutNoDelay(table, id, self, args, delay) ==
    table \cup {[id |-> id, this |-> self, args |-> args, due |-> now]}

(***************************************************************************)
(* setTimeout(callback, delay): schedules the callback `delay` after now   *)
(* under a fresh handle.  The callback is the arrow function of the        *)
(* wrapper; it closes over `this` and `args` of the wrapper call.          *)
(***************************************************************************)
setTimeout(table, id, self, args, delay) ==
    table \cup {[id |-> id, this |-> self, args |-> args, due |-> now + delay]}

\* What the original onSearch returns when it runs.
OriginalResult == "result"

\* A wrapper that hands the original's result back to its caller.
WrapperReturnsResult == OriginalResult

\* What the replacement function returns to its caller: its body has no
\* return statement.
WrapperReturn == Undefined

\* A wrapper that runs the original at once instead of scheduling it.
WrapperCallSynchronous(self, args) ==
    /\ Len(calls) < MaxCalls
    /\ calls' = Append(calls, [this |-> self, args |-> args, at |-> now,
                               ret |-> Undefined])
    /\ invoked' = Append(invoked,
           [this |-> self, args |-> args, at |-> now,
            seen |-> Len(calls) + 1, result |-> "result"])
    /\ UNCHANGED <<lab, now, ms, timeoutId, timers, nextTimerId, fired,
                   console, uncaught>>
    /\ UNCHANGED <<cacheVars, logVars, moreVars>>

(***************************************************************************)
(* The replacement function installed by DebounceLegacy (descriptor.value) *)
(* and returned by Debounce, called as inst.onSearch(...args).  The two    *)
(* bodies are the same up to the timer callback.                           *)
(***************************************************************************)
WrapperCall(self, args) ==
    /\ Len(calls) < MaxCalls
    /\ timers' = setTimeout(clearTimeout(timers, timeoutId), nextTimerId,
                            self, args, ms)
    /\ timeoutId' = <<nextTimerId>>
    /\ nextTimerId' = nextTimerId + 1
    /\ calls' = Append(calls, [this |-> self, args |-> args, at |-> now,
                               ret |-> WrapperReturn])
    /\ UNCHANGED <<lab, now, ms, fired, invoked, console, uncaught>>
    /\ UNCHANGED <<cacheVars, logVars, moreVars>>

\* The argument list the callback hands to the original: original.apply(this,
\* args) in the legacy lab, context.value.call(this, ...args) in the modern.
ForwardedArgs(args) == args

\* The record of one invocation of the original onSearch.
Invocation(t) ==
    [this |-> t.this, args |-> ForwardedArgs(t.args), at |-> now,
     seen |-> Len(calls), result |-> OriginalResult]

(***************************************************************************)
(* The timer callback of DebounceLegacy: original.apply(this, args).       *)
(***************************************************************************)
LegacyCallback(t) ==
    /\ invoked' = Append(invoked, Invocation(t))
    /\ UNCHANGED <<console, uncaught>>

(***************************************************************************)
(* The timer callback of Debounce: logs, then context.value.call(this,     *)
(* ...args).  context.value is read from the decorator context; calling    *)
(* .call on undefined throws a TypeError out of the callback.              *)
(***************************************************************************)
ModernCallback(t) ==
    LET context == MethodContext("onSearch")
        value == GetProp(context, "value")
    IN  /\ console' = Append(console, <<"[LogMethod]", context.name,
                                        "called with", t.args>>)
        /\ IF value = Undefined
           THEN /\ uncaught' = Append(uncaught, "TypeError")
                /\ UNCHANGED invoked
           ELSE /\ invoked' = Append(invoked, Invocation(t))
                /\ UNCHANGED uncaught

(***************************************************************************)
(* The event loop runs a timer whose delay has elapsed.                    *)
(***************************************************************************)
TimerFires(t) ==
    /\ t \in timers
    /\ t.due <= now
    /\ timers' = timers \ {t}
    /\ fired' = Append(fired, [this |-> t.this, args |-> t.args, at |-> now,
                               seen |-> Len(calls)])
    /\ IF lab = "legacy" THEN LegacyCallback(t) ELSE ModernCallback(t)
    /\ UNCHANGED <<lab, now, ms, timeoutId, nextTimerId, calls>>
    /\ UNCHANGED <<cacheVars, logVars, moreVars>>

(***************************************************************************)
(* The two labs side by side: the same wrapper calls reach both programs   *)
(* and their timers fire at the same times.  The debounce variables hold   *)
(* the legacy lab's histories, twin holds the modern lab's.                *)
(***************************************************************************)
TwinModernCallback(t) ==
    LET context == MethodContext("onSearch")
        value == GetProp(context, "value")
        logged == Append(twin.console, <<"[LogMethod]", context.name,
                                         "called with", t.args>>)
    IN  twin' = IF value = Undefined
                THEN [twin EXCEPT !.console = logged,
                                  !.uncaught = Append(@, "TypeError")]
                ELSE [twin EXCEPT !.console = logged,
                                  !.invoked = Append(@, Invocation(t))]

TwinTimerFires(t) ==
    /\ t \in timers
    /\ t.due <= now
    /\ timers' = timers \ {t}
    /\ fired' = Append(fired, [this |-> t.this, args |-> t.args, at |-> now,
                               seen |-> Len(calls)])
    /\ LegacyCallback(t)
    /\ TwinModernCallback(t)
    /\ UNCHANGED <<lab, now, ms, timeoutId, nextTimerId, calls>>
    /\ UNCHANGED <<cacheVars, logVars, teardownVars, permVars, mixinVars,
                   composeVars,
                   signalVars>>

\* Time passes.
Tick ==
    /\ now < MaxTime
    /\ now' = now + 1
    /\ UNCHANGED <<lab, ms, timeoutId, timers, nextTimerId, calls, fired,
                   invoked, console, uncaught>>
    /\ UNCHANGED <<cacheVars, logVars, moreVars>>

(***************************************************************************)
(* The memoizing wrappers Cache and CacheResult.                           *)
(***************************************************************************)
\* The cache-wrapped methods: MathService.expensiveOperation under @Cache
\* and DataService.fetchUser under @CacheResult.
CacheMethods ==
    { [class |-> "MathService", name |-> "expensiveOperation",
       decorator |-> "Cache"],
      [class |-> "DataService", name |-> "fetchUser",
       decorator |-> "CacheResult"] }

\* Argument lists of the cached calls, as JavaScript values.
CacheArgLists == {<<"4">>, <<"null">>, <<Undefined>>}

\* What the underlying operation may do when it runs: return a value
\* (undefined for a body without return statement) or throw.
Outcomes ==
    { [kind |-> "return", value |-> Undefined],
      [kind |-> "return", value |-> "16"],
      [kind |-> "throw", value |-> "Error"] }

\* JSON.stringify of an argument array: the elements in order, an undefined
\* element written as null.
JSONstringify(args) ==
    [i \in 1..Len(args) |-> IF args[i] = Undefined THEN "null" ELSE args[i]]

\* The Map a wrapper uses: Cache creates one inside each decorator
\* application, CacheResult uses the one Map of its module.
TableOf(m) ==
    IF m.decorator = "Cache" THEN <<"closure", m.class, m.name>>
                             ELSE <<"module">>

Tables == {TableOf(m) : m \in CacheMethods}

\* The key of a call: JSON.stringify(args) for Cache,
\* `${propertyKey}-${JSON.stringify(args)}` for CacheResult.
CacheKey(m, args) ==
    IF m.decorator = "Cache" THEN JSONstringify(args)
                             ELSE <<m.name, "-">> \o JSONstringify(args)

\* A lookup that tests the stored value for truthiness instead of presence.
MapHasTruthy(table, key) ==
    \E e \in table : e.key = key /\ e.value # Undefined

\* Map.prototype.has, get and set; a Map is the set of its entries.
MapHas(table, key) == \E e \in table : e.key = key

MapGet(table, key) == (CHOOSE e \in table : e.key = key).value

MapSet(table, key, value) ==
    {e \in table : e.key # key} \cup {[key |-> key, value |-> value]}

\* A wrapper call like CacheCall, but with the given key and table effect:
\* used to state wrappers that differ from the code's.
CacheStep(m, self, args, outcome, key, storeFailure) ==
    LET table == cache[TableOf(m)]
        entry(invokedOriginal, kind, value) ==
            [method |-> m, this |-> self, args |-> args,
             key |-> CacheKey(m, args),
             invokedOriginal |-> invokedOriginal, kind |-> kind,
             value |-> value]
    IN  /\ Len(cacheCalls) < MaxCacheCalls
        /\ IF MapHas(table, key)
           THEN /\ cacheCalls' = Append(cacheCalls,
                        entry(FALSE, "return", MapGet(table, key)))
                /\ UNCHANGED cache
           ELSE /\ cacheCalls' = Append(cacheCalls,
                        entry(TRUE, outcome.kind, outcome.value))
                /\ IF outcome.kind = "throw" /\ ~storeFailure
                   THEN UNCHANGED cache
                   ELSE cache' = [cache EXCEPT ![TableOf(m)] =
                                     MapSet(table, key, outcome.value)]
        /\ UNCHANGED <<debounceVars, logVars, moreVars>>

\* A wrapper that stores whatever the operation produced, a failure too.
CacheCallStoresFailure(m, self, args, outcome) ==
    CacheStep(m, self, args, outcome, CacheKey(m, args), TRUE)

\* A wrapper whose Map is created for each instance.
CacheCallPerInstance(m, self, args, outcome) ==
    CacheStep(m, self, args, outcome, <<self>> \o CacheKey(m, args), FALSE)

(***************************************************************************)
(* One call inst.method(...args) of a cache-wrapped method; `outcome` is   *)
(* what the underlying operation does if the wrapper runs it.              *)
(***************************************************************************)
CacheCall(m, self, args, outcome) ==
    LET key == CacheKey(m, args)
        table == cache[TableOf(m)]
        entry(invokedOriginal, kind, value) ==
            [method |-> m, this |-> self, args |-> args, key |-> key,
             invokedOriginal |-> invokedOriginal, kind |-> kind,
             value |-> value]
    IN  /\ Len(cacheCalls) < MaxCacheCalls
        /\ IF MapHas(table, key)
           THEN /\ cacheCalls' = Append(cacheCalls,
                        entry(FALSE, "return", MapGet(table, key)))
                /\ UNCHANGED cache
           ELSE IF outcome.kind = "throw"
           THEN /\ cacheCalls' = Append(cacheCalls,
                        entry(TRUE, "throw", outcome.value))
                /\ UNCHANGED cache
           ELSE /\ cache' = [cache EXCEPT ![TableOf(m)] =
                                MapSet(table, key, outcome.value)]
                /\ cacheCalls' = Append(cacheCalls,
                        entry(TRUE, "return", outcome.value))
        /\ UNCHANGED <<debounceVars, logVars, moreVars>>

(***************************************************************************)
(* The main example: class ExampleService with @LogClass, a field under    *)
(* @LogProperty and the method fetchData under method decorators.          *)
(*                                                                         *)
(* A function value is the sequence of the wrappers around the original    *)
(* fetchData, outermost first; <<>> is the original itself.                *)
(***************************************************************************)
\* The decorators above fetchData in the main example, top first.
MainStack == <<"LogMethod", "MeasureTime">>

\* The decorator stacks the model runs: each decorator alone, and the main
\* example's.
Stacks == {<<"LogMethod">>, <<"MeasureTime">>, MainStack}

\* Argument lists of the calls of fetchData.
UrlLists == {<<"https://api.example.com">>, <<"https://example.org">>}

\* An instance that has no own property fetchData.
NoOwn == [has |-> FALSE, fn |-> <<>>, message |-> Undefined]

\* The constructor of the class ExampleService and the value its field
\* declaration gives to message.
ExampleService == [name |-> "ExampleService"]
MessageValue == "Hello Decorators!"

\* LogClass: what it prints and the value it returns for the class.
LogClassLine(constructor) == <<"[LogClass] Decorating:", constructor.name>>
LogClass(constructor) == constructor

\* LogProperty: what it prints, and the initializer function it returns,
\* which runs on the field's value at each construction.
LogPropertyLine(context) == <<"[LogProperty] Property:", context.name>>
LogPropertyInitializerDrops(value) == Undefined
LogPropertyInitializer(value) == value

\* What the body of fetchData returns.
OriginalFetch(args) == <<"Fetched from", args[1]>>

(***************************************************************************)
(* Calling a function value with `this` = self and the arguments args:     *)
(* the console lines it prints, the invocations of the original it makes,  *)
(* and whether it returns or throws, and what.                             *)
(*   original      returns `Fetched from ${url}`;                          *)
(*   LogMethod     logs, then context.value.call(this, ...args);           *)
(*   MeasureTime   originalMethod.call(this, ...args), then logs the time  *)
(*                 and returns the result; a throw passes through.         *)
(***************************************************************************)
RECURSIVE RunFn(_, _, _)
RunFn(fn, self, args) ==
    IF fn = <<>>
    THEN [lines |-> <<>>,
          invocations |-> <<[this |-> self, args |-> args]>>,
          kind |-> "return", value |-> OriginalFetch(args)]
    ELSE IF Head(fn) = "LogMethod"
    THEN LET context == MethodContext("fetchData")
             value == GetProp(context, "value")
             line == <<"[LogMethod]", context.name, "called with", args>>
         IN  IF value = Undefined
             THEN [lines |-> <<line>>, invocations |-> <<>>,
                   kind |-> "throw", value |-> "TypeError"]
             ELSE LET r == RunFn(Tail(fn), self, args)
                  IN  [r EXCEPT !.lines = <<line>> \o r.lines]
    ELSE LET r == RunFn(Tail(fn), self, args)
         IN  IF r.kind = "throw"
             THEN r
             ELSE [r EXCEPT !.lines =
                       r.lines \o <<<<"[MeasureTime]", "fetchData", "took">>>>]

(***************************************************************************)
(* Applying the method decorators of the stack, bottom to top, to the      *)
(* method: LogMethod returns a replacement function, MeasureTime returns   *)
(* nothing and registers an initializer.                                   *)
(***************************************************************************)
RECURSIVE DecoratedMethod(_)
DecoratedMethod(decorators) ==
    IF decorators = <<>> THEN <<>>
    ELSE IF Head(decorators) = "LogMethod"
         THEN <<"LogMethod">> \o DecoratedMethod(Tail(decorators))
         ELSE DecoratedMethod(Tail(decorators))

RegisteredInitializers(decorators) ==
    SelectSeq(decorators, LAMBDA d : d = "MeasureTime")

(***************************************************************************)
(* Evaluating the class definition: the method decorators are applied,     *)
(* then LogProperty logs the field name, then LogClass logs the class name *)
(* and returns the constructor.                                            *)
(***************************************************************************)
ClassDefinition ==
    /\ ~defined
    /\ defined' = TRUE
    /\ proto' = DecoratedMethod(stack)
    /\ initializers' = RegisteredInitializers(stack)
    /\ logConsole' = logConsole \o
            << LogPropertyLine([kind |-> "field", name |-> "message"]),
               LogClassLine(ExampleService) >>
    /\ ctor' = LogClass(ExampleService)
    /\ UNCHANGED <<stack, own, logCalls>>
    /\ UNCHANGED <<debounceVars, cacheVars, moreVars>>

(***************************************************************************)
(* new ExampleService(): each registered initializer of MeasureTime reads  *)
(* this[methodName], prints it, and installs the timing function as an own *)
(* property of the instance.                                               *)
(***************************************************************************)
Construct(self) ==
    /\ defined
    /\ ~own[self].has
    /\ LET wrapped == [i \in 1..Len(initializers) |-> "MeasureTime"] \o proto
       IN  /\ own' = [own EXCEPT ![self] =
                  [has |-> TRUE,
                   fn |-> IF initializers = <<>> THEN proto ELSE wrapped,
                   message |-> LogPropertyInitializer(MessageValue)]]
           /\ logConsole' = logConsole \o
                  [i \in 1..Len(initializers) |-> <<"[Function]", proto>>]
    /\ UNCHANGED <<stack, defined, proto, initializers, logCalls, ctor>>
    /\ UNCHANGED <<debounceVars, cacheVars, moreVars>>

(***************************************************************************)
(* inst.fetchData(...args) on a constructed instance.                      *)
(***************************************************************************)
FetchDataCall(self, args) ==
    /\ own[self].has
    /\ Len(logCalls) < MaxLogCalls
    /\ LET r == RunFn(own[self].fn, self, args)
       IN  /\ logConsole' = logConsole \o r.lines
           /\ logCalls' = Append(logCalls,
                  [this |-> self, args |-> args, kind |-> r.kind,
                   value |-> r.value, invocations |-> r.invocations])
    /\ UNCHANGED <<stack, defined, proto, initializers, own, ctor>>
    /\ UNCHANGED <<debounceVars, cacheVars, moreVars>>

(***************************************************************************)
(* AutoUnsubscribe: the class decorator replaces prototype.ngOnDestroy.    *)
(***************************************************************************)
\* Values a property of a component may hold.
Subject == [type |-> "Subject", unsubscribe |-> "function"]
PlainObject == [type |-> "Object", next |-> "function"]
Null == [type |-> "null"]
UndefinedValue == [type |-> "undefined"]
Text == [type |-> "string"]
FieldValues == {Subject, PlainObject, Null, UndefinedValue, Text}

FieldNames == {"subscription", "data"}

\* The own properties a constructed component can have: class fields, each
\* an enumerable own property, in declaration order.
Layouts ==
    {<<>>}
    \cup {<<[name |-> n, value |-> v]>> : n \in FieldNames, v \in FieldValues}
    \cup {<<[name |-> q[1], value |-> q[3]], [name |-> q[2], value |-> q[4]]>> :
            q \in {r \in FieldNames \X FieldNames \X FieldValues \X FieldValues :
                     r[1] # r[2]}}

\* const originalDestroy = constructor.prototype.ngOnDestroy
OriginalDestroy == IF hasDestroy THEN "ngOnDestroy" ELSE Undefined

\* The keys `for (const k in this)` visits: the own enumerable properties in
\* creation order, then the enumerable properties of the prototype.  A method
\* the class declares is not enumerable and stays so when assigned to; if the
\* class declares no ngOnDestroy, the decorator's assignment creates
\* prototype.ngOnDestroy as an enumerable property.
ForInKeys(self) ==
    [i \in 1..Len(fields[self]) |-> fields[self][i].name]
    \o (IF hasDestroy THEN <<>> ELSE <<"ngOnDestroy">>)

\* this[k]
ValueOf(self, k) ==
    IF \E i \in 1..Len(fields[self]) : fields[self][i].name = k
    THEN LET i == CHOOSE i \in 1..Len(fields[self]) : fields[self][i].name = k
         IN  fields[self][i].value
    ELSE [type |-> "function"]

\* value?.unsubscribe: undefined for null and undefined, else the member.
OptionalMember(value, key) ==
    IF value.type \in {"null", "undefined"} THEN Undefined
    ELSE GetProp(value, key)

\* fn?.(): calls fn unless it is undefined.
CallUnchecked(fn) == IF fn = Undefined THEN "throw" ELSE "called"
OptionalCall(fn) == IF fn = Undefined THEN "skipped" ELSE "called"

\* The steps of the loop over the keys, in order.
UnsubscribeSteps(self) ==
    LET keys == ForInKeys(self)
    IN  [i \in 1..Len(keys) |->
            [op |-> "unsubscribe", key |-> keys[i], this |-> self,
             did |-> OptionalCall(OptionalMember(ValueOf(self, keys[i]),
                                                 "unsubscribe"))]]

\* originalDestroy?.apply(this)
TeardownStep(self) ==
    [op |-> "teardown", key |-> "ngOnDestroy", this |-> self,
     did |-> OptionalCall(OriginalDestroy)]

\* The calls one run of the replacement ngOnDestroy makes, in order.
DestroyEvents(self) ==
    SelectSeq(UnsubscribeSteps(self) \o <<TeardownStep(self)>>,
              LAMBDA e : e.did = "called")

\* inst.ngOnDestroy()
NgOnDestroy(self) ==
    /\ Len(destroyed) < MaxDestroy
    /\ LET steps == UnsubscribeSteps(self) \o <<TeardownStep(self)>>
       IN  destroyed' = Append(destroyed,
              [this |-> self,
               events |-> DestroyEvents(self),
               kind |-> IF \E i \in 1..Len(steps) : steps[i].did = "throw"
                        THEN "throw" ELSE "return"])
    /\ UNCHANGED <<hasDestroy, fields>>
    /\ UNCHANGED <<debounceVars, cacheVars, logVars, twinVars, permVars,
                   mixinVars, composeVars,
                   signalVars>>

(***************************************************************************)
(* RequirePermission(permission): the replacement of deleteUser.           *)
(***************************************************************************)
Permissions == {"admin", "editor"}
UserIds == {<<"u1">>, <<"u2">>}
\* What the original deleteUser may return.
DeleteResults == {Undefined, "deleted"}

\* inject(PermissionService): the service, here the permissions it grants.
inject(token) == granted

hasPermissionAlways(svc, permission) == TRUE
hasPermission(svc, permission) == permission \in svc

DeleteUserCall(self, args, result) ==
    /\ Len(permCalls) < MaxPermCalls
    /\ LET svc == inject("PermissionService")
       IN  permCalls' = Append(permCalls,
              IF ~hasPermission(svc, required)
              THEN [this |-> self, args |-> args, perms |-> granted,
                    kind |-> "throw", value |-> <<"Missing", required>>,
                    invocations |-> <<>>]
              ELSE [this |-> self, args |-> args, perms |-> granted,
                    kind |-> "return", value |-> <<result>>,
                    invocations |-> <<[this |-> self, args |-> args,
                                       result |-> result]>>])
    /\ UNCHANGED <<required, granted>>
    /\ UNCHANGED <<debounceVars, cacheVars, logVars, twinVars, teardownVars,
                   mixinVars, composeVars,
                   signalVars>>

\* The application grants or withdraws permissions between calls.
SetGranted(perms) ==
    /\ perms # granted
    /\ granted' = perms
    /\ UNCHANGED <<required, permCalls>>
    /\ UNCHANGED <<debounceVars, cacheVars, logVars, twinVars, teardownVars,
                   mixinVars, composeVars,
                   signalVars>>

(***************************************************************************)
(* The class mixins addToJSON, withDebug and withInfo.  Each returns       *)
(* `class extends Base { ... }`, an anonymous class expression.            *)
(***************************************************************************)
\* The three decorated classes of the example with their field declarations.
MixinClasses ==
    { [name |-> "C", decorator |-> "addToJSON",
       fields |-> << [name |-> "foo", value |-> "foo"],
                     [name |-> "num", value |-> "24"] >>],
      [name |-> "D", decorator |-> "withDebug",
       fields |-> << [name |-> "foo", value |-> "bar"],
                     [name |-> "num", value |-> "25"] >>],
      [name |-> "E", decorator |-> "withInfo",
       fields |-> << [name |-> "foo", value |-> "foo"],
                     [name |-> "num", value |-> "42"] >>] }

\* The name property read from an anonymous class expression that extends
\* Base, by build: "own" - the class has its own name, the empty string
\* (engines since ES2021); "inherited" - the class has no own name and the
\* read finds Base.name on its prototype chain (earlier ES2015 engines);
\* "downlevel" - the compiler emits a function named class_1 (target ES5).
Builds == {"own", "inherited", "downlevel"}

AnonymousClassName(Base) ==
    CASE build = "own" -> ""
      [] build = "inherited" -> Base.name
      [] build = "downlevel" -> "class_1"

\* Property names and values the example's caller may assign, and the
\* strings new Date().toISOString() may give.
AssignedNames == {"num", "serializedAt"}
AssignedValues == {"changed", Undefined}
Stamps == {"T1", "T2"}

HasOwn(obj, name) == \E i \in 1..Len(obj) : obj[i].name = name

\* obj[name] = value on an ordinary object: an existing property keeps its
\* place, a new one is created last.
PutProp(obj, name, value) ==
    IF HasOwn(obj, name)
    THEN [i \in 1..Len(obj) |->
             IF obj[i].name = name THEN [name |-> name, value |-> value]
             ELSE obj[i]]
    ELSE Append(obj, [name |-> name, value |-> value])

\* { ...obj }: the own enumerable properties, in order.
ObjectSpread(obj) == obj

\* { ...this, serializedAt: new Date().toISOString() }
toJSONSpreadLast(obj, stamp) ==
    IF HasOwn(obj, "serializedAt") THEN ObjectSpread(obj)
    ELSE PutProp(ObjectSpread(obj), "serializedAt", stamp)
toJSON(obj, stamp) == PutProp(ObjectSpread(obj), "serializedAt", stamp)

\* Object.keys(obj)
ObjectKeys(obj) == [i \in 1..Len(obj) |-> obj[i].name]

\* JSON.stringify(obj) of an object without toJSON: the own enumerable
\* properties in order, those holding undefined left out.
JSONstringifyObject(obj) ==
    [json |-> SelectSeq(obj, LAMBDA q : q.value # Undefined)]

\* `[${className}] ${JSON.stringify(this)}`
debug(obj) ==
    <<"[", AnonymousClassName(decorated), "] ", JSONstringifyObject(obj)>>

getInfo(obj) ==
    [class |-> AnonymousClassName(decorated), props |-> ObjectKeys(obj)]

\* inst[name] = value
SetProp(name, value) ==
    /\ props' = PutProp(props, name, value)
    /\ props' # props
    /\ UNCHANGED <<build, decorated, mixinCalls>>
    /\ UNCHANGED <<debounceVars, cacheVars, logVars, twinVars, teardownVars,
                   permVars, composeVars,
                   signalVars>>

\* inst.toJSON(), inst.debug() or inst.getInfo(): the method the class's
\* decorator added.
MixinCall(stamp) ==
    /\ Len(mixinCalls) < MaxMixinCalls
    /\ decorated.decorator = "addToJSON" \/ stamp = "T1"
    /\ UNCHANGED <<build, decorated, props>>
    /\ mixinCalls' = Append(mixinCalls,
          [method |-> decorated.decorator, before |-> props,
           after |-> props', stamp |-> stamp,
           result |-> CASE decorated.decorator = "addToJSON" ->
                              [object |-> toJSON(props, stamp)]
                        [] decorated.decorator = "withDebug" ->
                              [string |-> debug(props)]
                        [] decorated.decorator = "withInfo" ->
                              [info |-> getInfo(props)]])
    /\ UNCHANGED <<debounceVars, cacheVars, logVars, twinVars, teardownVars,
                   permVars, composeVars,
                   signalVars>>

(***************************************************************************)
(* Decorator composition: MathService.expensiveOperation under @Log above  *)
(* @Cache, in the legacy and in the new-API variant.  A function value is  *)
(* the sequence of the wrappers around the original, outermost first.      *)
(***************************************************************************)
ComposeApis == {"legacy", "new"}

\* The decorators above expensiveOperation, top first.
ComposeStack == <<"Log", "Cache">>

\* The method whose Map the Cache of this example closes over.
ComposedMethod ==
    [class |-> "MathService", name |-> "expensiveOperation",
     decorator |-> "Cache"]

Reverse(seq) == [i \in 1..Len(seq) |-> seq[Len(seq) + 1 - i]]

\* The order in which the decorators of a stack are applied: bottom to top.
ApplicationOrderTopDown(decorators) == decorators
ApplicationOrder(decorators) == Reverse(decorators)

\* Each decorator in turn replaces the function by its wrapper around it.
RECURSIVE WrapAll(_, _)
WrapAll(order, fn) ==
    IF order = <<>> THEN fn
    ELSE WrapAll(Tail(order), <<Head(order)>> \o fn)

\* Legacy: each decorator, as applied, sets descriptor.value to its wrapper
\* around the descriptor.value it found; the prototype gets the last one.
LegacyComposed == WrapAll(ApplicationOrder(ComposeStack), <<>>)

\* New API: each decorator, as applied, registers an initializer; at
\* construction they run in this order, each replacing this[methodName] by
\* its wrapper around the this[methodName] it found.
NewComposed ==
    LET registered == ApplicationOrder(ComposeStack)
    IN  WrapAll(registered, <<>>)

\* Running a function value on arguments, given the Map of Cache and the
\* outcome of the original should it run.
RECURSIVE RunComposed(_, _, _, _)
RunComposed(fn, table, args, outcome) ==
    IF fn = <<>>
    THEN [events |-> <<"original">>, kind |-> outcome.kind,
          value |-> outcome.value, table |-> table]
    ELSE IF Head(fn) = "Log"
    THEN LET r == RunComposed(Tail(fn), table, args, outcome)
         IN  [r EXCEPT !.events = <<"Calling">> \o r.events]
    ELSE LET cacheKey == JSONstringify(args)
         IN  IF MapHas(table, cacheKey)
             THEN [events |-> <<"cache.has">>, kind |-> "return",
                   value |-> MapGet(table, cacheKey), table |-> table]
             ELSE LET r == RunComposed(Tail(fn), table, args, outcome)
                  IN  IF r.kind = "throw"
                      THEN [r EXCEPT !.events = <<"cache.has">> \o r.events]
                      ELSE [r EXCEPT
                              !.events = <<"cache.has">> \o r.events
                                            \o <<"cache.set">>,
                              !.table = MapSet(r.table, cacheKey, r.value)]

\* inst.expensiveOperation(...args)
ComposedCall(self, args, outcome) ==
    LET fn == IF composeApi = "legacy" THEN LegacyComposed ELSE NewComposed
        table == cache[TableOf(ComposedMethod)]
        r == RunComposed(fn, table, args, outcome)
    IN  /\ Len(composeCalls) < MaxComposeCalls
        /\ cache' = [cache EXCEPT ![TableOf(ComposedMethod)] = r.table]
        /\ composeCalls' = Append(composeCalls,
              [this |-> self, args |-> args,
               hadKey |-> MapHas(table, JSONstringify(args)),
               events |-> r.events, kind |-> r.kind, value |-> r.value])
        /\ UNCHANGED <<cacheCalls, composeApi>>
        /\ UNCHANGED <<debounceVars, logVars, twinVars, teardownVars,
                       permVars, mixinVars,
                   signalVars>>

(***************************************************************************)
(* SimpleSignal(initial): a closure over `value` and `listeners`, with the *)
(* functions signal(), signal.set and signal.effect.  A listener is a      *)
(* function that reads the signal when it runs.                            *)
(***************************************************************************)
InitialValue == "initial"
SignalValues == {"v1", "v2"}
ListenerFns == {"f", "g"}

\* signal(): () => value
ReadSignal(sig) == sig.value

\* One run of a listener: what it reads from the signal.
RunListener(fn, sig) == [fn |-> fn, saw |-> ReadSignal(sig)]

\* listeners.forEach(fn => fn())
forEach(listeners, sig) ==
    [i \in 1..Len(listeners) |-> RunListener(listeners[i], sig)]

\* signal.set = v => { value = v; listeners.forEach(fn => fn()); }
setNotifiesThenStores(sig, v) ==
    [sig |-> [sig EXCEPT !.value = v], ran |-> forEach(sig.listeners, sig)]
set(sig, v) ==
    LET stored == [sig EXCEPT !.value = v]
    IN  [sig |-> stored, ran |-> forEach(stored.listeners, stored)]

\* signal.effect = fn => { listeners.push(fn); fn(); }
effect(sig, fn) ==
    LET pushed == [sig EXCEPT !.listeners = Append(@, fn)]
    IN  [sig |-> pushed, ran |-> <<RunListener(fn, pushed)>>]

SignalEffect(fn) ==
    /\ Len(signalLog) < MaxSignalOps
    /\ LET r == effect(signal, fn)
       IN  /\ signal' = r.sig
           /\ signalLog' = Append(signalLog,
                  [op |-> "effect", arg |-> fn, before |-> signal,
                   after |-> r.sig, ran |-> r.ran])
    /\ UNCHANGED <<debounceVars, cacheVars, logVars, twinVars, teardownVars,
                   permVars, mixinVars, composeVars>>

SignalSet(v) ==
    /\ Len(signalLog) < MaxSignalOps
    /\ LET r == set(signal, v)
       IN  /\ signal' = r.sig
           /\ signalLog' = Append(signalLog,
                  [op |-> "set", arg |-> v, before |-> signal,
                   after |-> r.sig, ran |-> r.ran])
    /\ UNCHANGED <<debounceVars, cacheVars, logVars, twinVars, teardownVars,
                   permVars, mixinVars, composeVars>>

\* signal() called by the application, outside any listener.
SignalRead ==
    /\ Len(signalLog) < MaxSignalOps
    /\ signalLog' = Append(signalLog,
          [op |-> "read", arg |-> ReadSignal(signal), before |-> signal,
           after |-> signal, ran |-> <<>>])
    /\ UNCHANGED signal
    /\ UNCHANGED <<debounceVars, cacheVars, logVars, twinVars, teardownVars,
                   permVars, mixinVars, composeVars>>

\* The debounce labs before their first wrapper call.
DebounceStart ==
    /\ now = 0
    /\ timeoutId = <<>>
    /\ timers = {}
    /\ nextTimerId = 1
    /\ calls = <<>>
    /\ fired = <<>>
    /\ invoked = <<>>
    /\ console = <<>>
    /\ uncaught = <<>>

\* The cache examples before their first call: every Map is empty.
CacheStart ==
    /\ cache = [t \in Tables |-> {}]
    /\ cacheCalls = <<>>

\* The main example before its class definition is evaluated.
LogStart ==
    /\ defined = FALSE
    /\ proto = <<>>
    /\ initializers = <<>>
    /\ own = [i \in Instances |-> NoOwn]
    /\ logConsole = <<>>
    /\ logCalls = <<>>
    /\ ctor = Undefined

\* The other examples, not running.
TwinIdle == twin = [invoked |-> <<>>, console |-> <<>>, uncaught |-> <<>>]

TeardownIdle ==
    /\ hasDestroy = FALSE
    /\ fields = [i \in Instances |-> <<>>]
    /\ destroyed = <<>>

PermIdle ==
    /\ required = "admin"
    /\ granted = {}
    /\ permCalls = <<>>

MixinIdle ==
    /\ build = "own"
    /\ decorated = [name |-> "C", decorator |-> "addToJSON", fields |-> <<>>]
    /\ props = <<>>
    /\ mixinCalls = <<>>

ComposeIdle ==
    /\ composeApi = "legacy"
    /\ composeCalls = <<>>

SignalIdle ==
    /\ signal = [value |-> "initial", listeners |-> <<>>]
    /\ signalLog = <<>>

MoreIdle ==
    /\ TwinIdle /\ TeardownIdle /\ PermIdle /\ MixinIdle /\ ComposeIdle
    /\ SignalIdle

InitDebounce ==
    /\ lab \in Labs
    /\ ms \in 0..MaxDelay
    /\ DebounceStart
    /\ CacheStart
    /\ stack = MainStack
    /\ LogStart
    /\ MoreIdle

NextDebounce ==
    \/ \E self \in Instances, args \in ArgLists : WrapperCall(self, args)
    \/ \E t \in timers : TimerFires(t)
    \/ Tick

SpecDebounce == InitDebounce /\ [][NextDebounce]_vars

\* The debounce labs with a delay longer than one step of the clock, so
\* that calls can follow each other with gaps shorter than the delay.
InitDeferral ==
    /\ lab \in Labs
    /\ ms = MaxDelay + 1
    /\ DebounceStart
    /\ CacheStart
    /\ stack = MainStack
    /\ LogStart
    /\ MoreIdle

SpecDeferral == InitDeferral /\ [][NextDebounce]_vars

\* The legacy lab with the modern lab beside it.
InitTwin ==
    /\ lab = "legacy"
    /\ ms \in 0..MaxDelay
    /\ DebounceStart
    /\ CacheStart
    /\ stack = MainStack
    /\ LogStart
    /\ MoreIdle

NextTwin ==
    \/ \E self \in Instances, args \in ArgLists : WrapperCall(self, args)
    \/ \E t \in timers : TwinTimerFires(t)
    \/ Tick

SpecTwin == InitTwin /\ [][NextTwin]_vars

\* The cache examples alone: the debounce labs and the main example idle.
InitCache ==
    /\ lab = "legacy"
    /\ ms = 0
    /\ DebounceStart
    /\ CacheStart
    /\ stack = MainStack
    /\ LogStart
    /\ MoreIdle

NextCache ==
    \E m \in CacheMethods, self \in Instances, args \in CacheArgLists,
       outcome \in Outcomes : CacheCall(m, self, args, outcome)

SpecCache == InitCache /\ [][NextCache]_vars

\* Methods under @CacheResult: fetchUser of DataService, a method of the
\* same name in another class, and a method of another name.
ResultMethods ==
    { [class |-> "DataService", name |-> "fetchUser",
       decorator |-> "CacheResult"],
      [class |-> "ReportService", name |-> "fetchUser",
       decorator |-> "CacheResult"],
      [class |-> "DataService", name |-> "fetchPosts",
       decorator |-> "CacheResult"] }

ResultArgLists == {<<"4">>, <<"null">>}

\* Several methods under @CacheResult, sharing the Map of the module.
NextIsolation ==
    \E m \in ResultMethods, args \in ResultArgLists, outcome \in Outcomes :
        CacheCall(m, "a", args, outcome)

SpecIsolation == InitCache /\ [][NextIsolation]_vars

\* The main example alone, under each decorator stack.
InitLog ==
    /\ lab = "legacy"
    /\ ms = 0
    /\ DebounceStart
    /\ CacheStart
    /\ stack \in Stacks
    /\ LogStart
    /\ MoreIdle

NextLog ==
    \/ ClassDefinition
    \/ \E self \in Instances : Construct(self)
    \/ \E self \in Instances, args \in UrlLists : FetchDataCall(self, args)

SpecLog == InitLog /\ [][NextLog]_vars

\* AutoUnsubscribe alone: the components are constructed, none destroyed.
InitTeardown ==
    /\ lab = "legacy"
    /\ ms = 0
    /\ DebounceStart
    /\ CacheStart
    /\ stack = MainStack
    /\ LogStart
    /\ TwinIdle /\ PermIdle /\ MixinIdle /\ ComposeIdle /\ SignalIdle
    /\ hasDestroy \in BOOLEAN
    /\ fields \in [Instances -> Layouts]
    /\ destroyed = <<>>

NextTeardown == \E self \in Instances : NgOnDestroy(self)

SpecTeardown == InitTeardown /\ [][NextTeardown]_vars

\* RequirePermission alone.
InitPermission ==
    /\ lab = "legacy"
    /\ ms = 0
    /\ DebounceStart
    /\ CacheStart
    /\ stack = MainStack
    /\ LogStart
    /\ TwinIdle /\ TeardownIdle /\ MixinIdle /\ ComposeIdle /\ SignalIdle
    /\ required \in Permissions
    /\ granted \in SUBSET Permissions
    /\ permCalls = <<>>

NextPermission ==
    \/ \E self \in Instances, args \in UserIds, result \in DeleteResults :
          DeleteUserCall(self, args, result)
    \/ \E perms \in SUBSET Permissions : SetGranted(perms)

SpecPermission == InitPermission /\ [][NextPermission]_vars

\* The mixin examples alone: one instance of one decorated class.
InitMixin ==
    /\ lab = "legacy"
    /\ ms = 0
    /\ DebounceStart
    /\ CacheStart
    /\ stack = MainStack
    /\ LogStart
    /\ TwinIdle /\ TeardownIdle /\ PermIdle /\ ComposeIdle /\ SignalIdle
    /\ build \in Builds
    /\ decorated \in MixinClasses
    /\ props = decorated.fields
    /\ mixinCalls = <<>>

NextMixin ==
    \/ \E name \in AssignedNames, value \in AssignedValues : SetProp(name, value)
    \/ \E stamp \in Stamps : MixinCall(stamp)

SpecMixin == InitMixin /\ [][NextMixin]_vars

\* The composition example alone, in either variant.
InitCompose ==
    /\ lab = "legacy"
    /\ ms = 0
    /\ DebounceStart
    /\ CacheStart
    /\ stack = MainStack
    /\ LogStart
    /\ TwinIdle /\ TeardownIdle /\ PermIdle /\ MixinIdle /\ SignalIdle
    /\ composeApi \in ComposeApis
    /\ composeCalls = <<>>

NextCompose ==
    \E self \in Instances, args \in CacheArgLists, outcome \in Outcomes :
        ComposedCall(self, args, outcome)

SpecCompose == InitCompose /\ [][NextCompose]_vars

\* One SimpleSignal alone, just created.
InitSignal ==
    /\ lab = "legacy"
    /\ ms = 0
    /\ DebounceStart
    /\ CacheStart
    /\ stack = MainStack
    /\ LogStart
    /\ TwinIdle /\ TeardownIdle /\ PermIdle /\ MixinIdle /\ ComposeIdle
    /\ signal = [value |-> InitialValue, listeners |-> <<>>]
    /\ signalLog = <<>>

NextSignal ==
    \/ \E fn \in ListenerFns : SignalEffect(fn)
    \/ \E v \in SignalValues : SignalSet(v)
    \/ SignalRead

SpecSignal == InitSignal /\ [][NextSignal]_vars

(***************************************************************************)
(* Properties of the debounce labs.                                        *)
(***************************************************************************)
\* No invocation is pending: every scheduled timer has fired or was cancelled.
Quiescent == timers = {}

LastCall == calls[Len(calls)]

\* All wrapper calls so far fall within a span shorter than the delay.
Burst == Len(calls) >= 1 /\ LastCall.at - calls[1].at < ms

\* C1: after a burst of N >= 1 wrapper calls within a span shorter than D and
\* no further call, once nothing is pending the original has been invoked
\* exactly once, with the arguments of the last call of the burst.
C1_BurstInvokesOnceWithLastArgs ==
    (Burst /\ Quiescent) =>
        /\ Len(invoked) = 1
        /\ invoked[1].args = LastCall.args

\* The same for the legacy lab alone.
LegacyBurstInvokesOnceWithLastArgs ==
    (lab = "legacy" /\ Burst /\ Quiescent) =>
        /\ Len(invoked) = 1
        /\ invoked[1].args = LastCall.args

\* C2: every invocation of the original happens at or after t_last + D, where
\* t_last is the time of the most recent wrapper call preceding it.
C2_QuietPeriod ==
    \A i \in 1..Len(invoked) :
        /\ invoked[i].seen >= 1
        /\ invoked[i].at >= calls[invoked[i].seen].at + ms

\* C2 witness: the original ran under a nonzero delay after several calls.
C2_Witness == Len(invoked) >= 1 /\ ms >= 1 /\ invoked[1].seen >= 2

\* Two wrapper calls more than D apart, the first timer having fired before
\* the second call.
Separated ==
    /\ Len(calls) = 2
    /\ calls[2].at - calls[1].at > ms
    /\ Len(fired) >= 1
    /\ fired[1].seen = 1

\* C3: two calls separated by more than D (the first timer already fired)
\* make the original run twice, once per call, each with its own arguments.
C3_SeparatedCallsRunTwice ==
    (Separated /\ Quiescent) =>
        /\ Len(invoked) = 2
        /\ \A i \in 1..2 : /\ invoked[i].args = calls[i].args
                           /\ invoked[i].this = calls[i].this

\* The same for the legacy lab alone.
LegacySeparatedCallsRunTwice ==
    (lab = "legacy" /\ Separated /\ Quiescent) =>
        /\ Len(invoked) = 2
        /\ \A i \in 1..2 : /\ invoked[i].args = calls[i].args
                           /\ invoked[i].this = calls[i].this

\* C4: after a single wrapper call followed by no further call, once the
\* timer has fired the original has been invoked exactly once.
C4_IsolatedCallRunsOnce ==
    (Len(calls) = 1 /\ Quiescent) => Len(invoked) = 1

\* The same for the legacy lab alone, with never more than one invocation.
LegacyIsolatedCallRunsOnce ==
    (lab = "legacy" /\ Len(calls) = 1) =>
        /\ Len(invoked) <= 1
        /\ Quiescent => Len(invoked) = 1

\* C5: a wrapped binding has at most one scheduled, not yet fired invocation,
\* and it is the one of the latest wrapper call: each call cancelled the
\* invocation scheduled before it.
C5_SingleTimer ==
    /\ Cardinality(timers) <= 1
    /\ \A t \in timers : <<t.id>> = timeoutId

\* C5 witness: a second call arrived while the first call's invocation was
\* pending, and one invocation is pending.
C5_Witness ==
    /\ Len(calls) >= 2
    /\ fired = <<>>
    /\ Cardinality(timers) = 1

\* C6: calls a.m(x) and b.m(y) on distinct instances within D of each other,
\* neither called again: the original runs once on a with x and once on b
\* with y.  Stated for the legacy lab, whose callback reaches the original.
C6_PerInstancePending ==
    ( /\ lab = "legacy"
      /\ Len(calls) = 2
      /\ calls[1].this # calls[2].this
      /\ calls[2].at - calls[1].at < ms
      /\ Quiescent )
    => /\ Len(invoked) = 2
       /\ \E i, j \in 1..2 :
            /\ i # j
            /\ invoked[i].this = calls[1].this
            /\ invoked[i].args = calls[1].args
            /\ invoked[j].this = calls[2].this
            /\ invoked[j].args = calls[2].args

\* C7: every wrapper call returns undefined at once; the value the original
\* returns when it eventually runs is delivered to no caller of the wrapper.
C7_WrapperReturnsUndefined ==
    \A i \in 1..Len(calls) :
        /\ calls[i].ret = Undefined
        /\ \A j \in 1..Len(invoked) : calls[i].ret # invoked[j].result

\* C7 witness: a wrapper call returned and the original ran later.
C7_Witness == Len(calls) >= 1 /\ Len(invoked) >= 1

\* C8: whenever a pending invocation fires, the original is called with the
\* instance of the scheduling wrapper call as `this` and with exactly that
\* call's argument list.
C8_Forwarding ==
    /\ Len(invoked) = Len(fired)
    /\ \A i \in 1..Len(invoked) :
          /\ invoked[i].this = fired[i].this
          /\ invoked[i].args = fired[i].args

\* The same for the legacy lab alone.
LegacyForwarding ==
    lab = "legacy" =>
        /\ Len(invoked) = Len(fired)
        /\ \A i \in 1..Len(invoked) :
              /\ invoked[i].this = fired[i].this
              /\ invoked[i].args = fired[i].args

(***************************************************************************)
(* Properties of the cache wrappers.                                       *)
(***************************************************************************)
\* Two calls of the same wrapped operation whose argument lists serialize to
\* the same string, the first made before the second.
SameKeyCalls(i, j) ==
    /\ i < j
    /\ cacheCalls[i].method = cacheCalls[j].method
    /\ JSONstringify(cacheCalls[i].args) = JSONstringify(cacheCalls[j].args)

\* C9 as stated: of any two calls with the same serialized arguments the
\* second does not invoke the underlying operation and returns the value
\* stored by the first.
C9_SecondCallIsHit ==
    \A i, j \in 1..Len(cacheCalls) :
        SameKeyCalls(i, j) =>
            /\ ~cacheCalls[j].invokedOriginal
            /\ cacheCalls[j].kind = "return"
            /\ cacheCalls[j].value = cacheCalls[i].value

\* C9 amended: of any two calls with the same serialized arguments, when the
\* first returned (did not throw), the second does not invoke the underlying
\* operation and returns the value the first returned, also when that value
\* is undefined.
C9_SecondCallIsHitAfterReturn ==
    \A i, j \in 1..Len(cacheCalls) :
        (SameKeyCalls(i, j) /\ cacheCalls[i].kind = "return") =>
            /\ ~cacheCalls[j].invokedOriginal
            /\ cacheCalls[j].kind = "return"
            /\ cacheCalls[j].value = cacheCalls[i].value

\* C9 witness: the first call ran the operation and stored undefined, a later
\* call with another argument list of the same serialization was a hit.
C9_Witness ==
    \E i, j \in 1..Len(cacheCalls) :
        /\ SameKeyCalls(i, j)
        /\ cacheCalls[i].args # cacheCalls[j].args
        /\ cacheCalls[i].invokedOriginal
        /\ cacheCalls[i].kind = "return"
        /\ cacheCalls[i].value = Undefined
        /\ ~cacheCalls[j].invokedOriginal

(***************************************************************************)
(* Properties of the logging and timing wrappers.                          *)
(***************************************************************************)
\* A call that ran the original exactly once with the caller's `this` and
\* arguments and returned the original's value.
Transparent(c) ==
    /\ c.invocations = <<[this |-> c.this, args |-> c.args]>>
    /\ c.kind = "return"
    /\ c.value = OriginalFetch(c.args)

\* C10: every call of a method wrapped by LogMethod or MeasureTime invokes
\* the original exactly once with the same `this` and arguments and returns
\* the original's value.
C10_WrappersTransparent ==
    \A i \in 1..Len(logCalls) : Transparent(logCalls[i])

\* The same for MeasureTime alone.
MeasureTimeTransparent ==
    stack = <<"MeasureTime">> =>
        \A i \in 1..Len(logCalls) : Transparent(logCalls[i])

\* Every call through LogMethod throws before it reaches the original.
LogMethodThrows ==
    "LogMethod" \in {stack[k] : k \in 1..Len(stack)} =>
        \A i \in 1..Len(logCalls) :
            /\ logCalls[i].kind = "throw"
            /\ logCalls[i].invocations = <<>>

(***************************************************************************)
(* Properties of the main example's console output.                        *)
(***************************************************************************)
\* The instances constructed so far.
Constructed == {i \in Instances : own[i].has}

\* C11: the main example (@LogMethod above @MeasureTime, one instance, one
\* call of fetchData) prints exactly the LogProperty line, the LogClass
\* line, the LogMethod line and the MeasureTime line, in this order.
C11_DriverOutput ==
    (stack = MainStack /\ Cardinality(Constructed) = 1 /\ Len(logCalls) = 1)
    => logConsole =
         << <<"[LogProperty] Property:", "message">>,
            <<"[LogClass] Decorating:", "ExampleService">>,
            <<"[LogMethod]", "fetchData", "called with", logCalls[1].args>>,
            <<"[MeasureTime]", "fetchData", "took">> >>

\* What the main example prints instead: the function printed by the
\* MeasureTime initializer, and no MeasureTime line after the LogMethod line.
MainExampleOutput ==
    (stack = MainStack /\ Cardinality(Constructed) = 1 /\ Len(logCalls) = 1)
    => logConsole =
         << <<"[LogProperty] Property:", "message">>,
            <<"[LogClass] Decorating:", "ExampleService">>,
            <<"[Function]", <<"LogMethod">> >>,
            <<"[LogMethod]", "fetchData", "called with", logCalls[1].args>> >>

(***************************************************************************)
(* Properties of LogClass and LogProperty.                                 *)
(***************************************************************************)
\* How many lines of the main example's output start with the given text.
LinesStarting(text) ==
    Cardinality({i \in 1..Len(logConsole) : logConsole[i][1] = text})

C19_NeverSynchronous ==
    [][calls' # calls => (invoked' = invoked /\ fired' = fired)]_vars

\* C19 witness: with delay 0 the original ran at the very time of the call
\* that scheduled it, in a timer callback.
C19_Witness ==
    /\ ms = 0
    /\ Len(invoked) >= 1
    /\ invoked[1].at = calls[invoked[1].seen].at
    /\ Len(fired) >= Len(invoked)

\* C20: there are never more invocations than wrapper calls, and every
\* invocation carries the instance and arguments of the wrapper call that was
\* the latest when its timer fired: a superseded call's arguments are never
\* passed to the original.
C20_SupersededDropped ==
    /\ Len(invoked) <= Len(calls)
    /\ \A i \in 1..Len(invoked) :
          /\ invoked[i].seen >= 1
          /\ invoked[i].args = calls[invoked[i].seen].args
          /\ invoked[i].this = calls[invoked[i].seen].this
          /\ \A j \in 1..Len(invoked) : i # j => invoked[i].seen # invoked[j].seen

\* C20 witness: the first call was superseded by a call with other arguments
\* and only the second call's invocation ran.
C20_Witness ==
    /\ Len(calls) = 2
    /\ calls[1].args # calls[2].args
    /\ Quiescent
    /\ Len(invoked) = 1
    /\ invoked[1].args = calls[2].args

(***************************************************************************)
(* Properties of the class mixins.                                         *)
(***************************************************************************)
ToJSONCalls == {n \in 1..Len(mixinCalls) : mixinCalls[n].method = "addToJSON"}

\* The value an object holds under a name it has.
Get(obj, name) ==
    LET i == CHOOSE i \in 1..Len(obj) : obj[i].name = name IN obj[i].value

\* C15: toJSON() returns an object that holds every own enumerable property
\* of the instance with its current value and a serializedAt entry, and the
\* instance's own properties are the same after the call as before.
C15_ToJSON ==
    \A n \in ToJSONCalls :
        LET c == mixinCalls[n]
            o == c.result.object
        IN  /\ \A i \in 1..Len(c.before) :
                  /\ HasOwn(o, c.before[i].name)
                  /\ Get(o, c.before[i].name) = c.before[i].value
            /\ HasOwn(o, "serializedAt")
            /\ c.after = c.before

\* C15 as amended: every own enumerable property other than serializedAt is
\* returned with its current value, serializedAt holds the time of the call,
\* nothing else is returned, and the instance is unchanged.
C15_ToJSONExceptStamp ==
    \A n \in ToJSONCalls :
        LET c == mixinCalls[n]
            o == c.result.object
        IN  /\ \A i \in 1..Len(c.before) :
                  c.before[i].name # "serializedAt" =>
                      /\ HasOwn(o, c.before[i].name)
                      /\ Get(o, c.before[i].name) = c.before[i].value
            /\ HasOwn(o, "serializedAt")
            /\ Get(o, "serializedAt") = c.stamp
            /\ \A i \in 1..Len(o) :
                  o[i].name # "serializedAt" => HasOwn(c.before, o[i].name)
            /\ c.after = c.before

\* C15 witness: toJSON ran on an instance that has an own property named
\* serializedAt and on one whose num was assigned after construction.
C15_Witness ==
    /\ Len(mixinCalls) = 2
    /\ ToJSONCalls = {1, 2}
    /\ ~HasOwn(mixinCalls[1].before, "serializedAt")
    /\ Get(mixinCalls[1].before, "num") = "changed"
    /\ HasOwn(mixinCalls[2].before, "serializedAt")
    /\ Get(mixinCalls[2].before, "serializedAt") = "changed"
    /\ Get(mixinCalls[2].result.object, "serializedAt") = "T2"

\* C16: debug() returns '[X] ' followed by the JSON of the instance's own
\* enumerable properties and getInfo() returns class 'X' and the own
\* enumerable property names in declaration order, X being the name of the
\* decorated class.
C16_ReportsDecoratedClass ==
    \A n \in 1..Len(mixinCalls) :
        LET c == mixinCalls[n]
        IN  /\ c.method = "withDebug" =>
                  c.result.string =
                      <<"[", decorated.name, "] ", JSONstringifyObject(c.before)>>
            /\ c.method = "withInfo" =>
                  /\ c.result.info.class = decorated.name
                  /\ c.result.info.props = ObjectKeys(c.before)

\* The part of C16 every build satisfies: the property names, in creation
\* order; and the whole of it where the class name is inherited.
InfoListsOwnNames ==
    \A n \in 1..Len(mixinCalls) :
        mixinCalls[n].method = "withInfo" =>
            /\ Len(mixinCalls[n].result.info.props) = Len(mixinCalls[n].before)
            /\ \A i \in 1..Len(mixinCalls[n].before) :
                  mixinCalls[n].result.info.props[i] = mixinCalls[n].before[i].name

ReportsDecoratedClassWhereInherited ==
    build = "inherited" => C16_ReportsDecoratedClass

(***************************************************************************)
(* Properties of decorator composition.                                    *)
(***************************************************************************)
Occurrences(events, e) ==
    Cardinality({j \in 1..Len(events) : events[j] = e})

\* C18: under @Log above @Cache, in either variant, every call prints the
\* 'Calling' line exactly once, before the cache lookup, on hits as on
\* misses, and the underlying operation runs on the misses only, once.
C18_LogWrapsCache ==
    \A n \in 1..Len(composeCalls) :
        LET ev == composeCalls[n].events
        IN  /\ Occurrences(ev, "Calling") = 1
            /\ Occurrences(ev, "cache.has") = 1
            /\ ev[1] = "Calling"
            /\ ev[2] = "cache.has"
            /\ Occurrences(ev, "original") =
                  (IF composeCalls[n].hadKey THEN 0 ELSE 1)

\* C18 witness: in the new-API variant a miss was followed by a hit on the
\* same arguments, which printed the line and did not run the operation.
C18_Witness ==
    /\ composeApi = "new"
    /\ Len(composeCalls) >= 2
    /\ ~composeCalls[1].hadKey
    /\ composeCalls[2].hadKey
    /\ composeCalls[2].args = composeCalls[1].args
    /\ composeCalls[2].events = <<"Calling", "cache.has">>

C18_WitnessLegacy ==
    /\ composeApi = "legacy"
    /\ Len(composeCalls) >= 2
    /\ composeCalls[2].hadKey
    /\ composeCalls[2].events = <<"Calling", "cache.has">>

(***************************************************************************)
(* Properties of AutoUnsubscribe and RequirePermission.                    *)
(***************************************************************************)
\* How many events of a run are the given call on the given key.
EventCount(events, op, key) ==
    Cardinality({j \in 1..Len(events) :
                    events[j].op = op /\ events[j].key = key})

C12_WitnessNoTeardown ==
    /\ ~hasDestroy
    /\ Len(destroyed) >= 1
    /\ Len(destroyed[1].events) = 1
    /\ destroyed[1].events[1].op = "unsubscribe"

\* C13: a call made while the required permission is absent throws and does
\* not invoke the original; a call made while it is present invokes the
\* original exactly once, with the same instance and arguments, and returns
\* the original's result.
C13_PermissionGuard ==
    \A n \in 1..Len(permCalls) :
        LET c == permCalls[n]
        IN  IF required \in c.perms
            THEN /\ c.kind = "return"
                 /\ Len(c.invocations) = 1
                 /\ c.invocations[1].this = c.this
                 /\ c.invocations[1].args = c.args
                 /\ c.value = <<c.invocations[1].result>>
            ELSE /\ c.kind = "throw"
                 /\ c.value = <<"Missing", required>>
                 /\ c.invocations = <<>>

\* C13 witness: the same call was refused while the permission was absent
\* and, once it was granted, ran the original and returned its result.
C13_Witness ==
    /\ Len(permCalls) = 2
    /\ permCalls[1].kind = "throw"
    /\ permCalls[2].kind = "return"
    /\ permCalls[2].value = <<"deleted">>
    /\ permCalls[2].this = permCalls[1].this
    /\ permCalls[2].args = permCalls[1].args

(***************************************************************************)
(* Further properties of the cache wrappers.                               *)
(***************************************************************************)
\* Call j is the first call after call i of the same operation with the same
\* serialized arguments.
NextSameKeyCall(i, j) ==
    /\ SameKeyCalls(i, j)
    /\ \A k \in (i + 1)..(j - 1) : ~SameKeyCalls(i, k)

\* C23: when the underlying operation throws on a miss, the call throws what
\* it threw, the Map gets no entry for the key (every entry of every Map was
\* stored by a call that returned), and the next call with the same
\* arguments invokes the underlying operation again.
C23_FailureNotCached ==
    /\ \A t \in Tables : \A e \in cache[t] :
          \E n \in 1..Len(cacheCalls) :
              /\ TableOf(cacheCalls[n].method) = t
              /\ cacheCalls[n].key = e.key
              /\ cacheCalls[n].invokedOriginal
              /\ cacheCalls[n].kind = "return"
              /\ cacheCalls[n].value = e.value
    /\ \A i, j \in 1..Len(cacheCalls) :
          (NextSameKeyCall(i, j) /\ cacheCalls[i].kind = "throw") =>
              /\ cacheCalls[i].invokedOriginal
              /\ cacheCalls[i].value = "Error"
              /\ cacheCalls[j].invokedOriginal

\* C23 witness: the operation threw on a miss and ran again, and returned,
\* on the next call with the same arguments.
C23_Witness ==
    \E i, j \in 1..Len(cacheCalls) :
        /\ NextSameKeyCall(i, j)
        /\ cacheCalls[i].kind = "throw"
        /\ cacheCalls[j].invokedOriginal
        /\ cacheCalls[j].kind = "return"

\* C24: the Map of Cache belongs to the decorated method, not to an
\* instance: once a call on one instance has returned a computed result, a
\* call on another instance with the same serialized arguments returns that
\* result without invoking the underlying operation, and the entry of every
\* call that returned stays in the Map with its value.
C24_SharedAcrossInstances ==
    /\ \A i, j \in 1..Len(cacheCalls) :
          ( /\ SameKeyCalls(i, j)
            /\ cacheCalls[i].method.decorator = "Cache"
            /\ cacheCalls[i].this # cacheCalls[j].this
            /\ cacheCalls[i].kind = "return" ) =>
              /\ ~cacheCalls[j].invokedOriginal
              /\ cacheCalls[j].value = cacheCalls[i].value
    /\ \A n \in 1..Len(cacheCalls) :
          (cacheCalls[n].method.decorator = "Cache"
             /\ cacheCalls[n].kind = "return") =>
              LET table == cache[TableOf(cacheCalls[n].method)]
              IN  /\ MapHas(table, cacheCalls[n].key)
                  /\ MapGet(table, cacheCalls[n].key) = cacheCalls[n].value

\* C24 witness: instance a computed a result under @Cache, a call between
\* used another key, and instance b then got a's result without computing.
C24_Witness ==
    /\ Len(cacheCalls) = 3
    /\ cacheCalls[1].method.decorator = "Cache"
    /\ SameKeyCalls(1, 3)
    /\ ~SameKeyCalls(1, 2)
    /\ cacheCalls[1].this = "a"
    /\ cacheCalls[3].this = "b"
    /\ cacheCalls[1].invokedOriginal
    /\ cacheCalls[1].value = "16"
    /\ ~cacheCalls[3].invokedOriginal
    /\ cacheCalls[3].value = "16"

\* C25: under @CacheResult a call returns a stored result only if an earlier
\* call of the same decorated method, with the same serialized arguments,
\* computed and returned it; a call of another decorated method, also one of
\* the same name in another class, invokes its own underlying operation.
C25_MethodIsolation ==
    \A j \in 1..Len(cacheCalls) :
        (cacheCalls[j].method.decorator = "CacheResult"
           /\ ~cacheCalls[j].invokedOriginal) =>
            \E i \in 1..(j - 1) :
                /\ cacheCalls[i].method = cacheCalls[j].method
                /\ cacheCalls[i].key = cacheCalls[j].key
                /\ cacheCalls[i].invokedOriginal
                /\ cacheCalls[i].kind = "return"
                /\ cacheCalls[i].value = cacheCalls[j].value

\* What holds instead: a stored result comes from a method of the same name,
\* of whichever class.
IsolationByNameOnly ==
    \A j \in 1..Len(cacheCalls) :
        (cacheCalls[j].method.decorator = "CacheResult"
           /\ ~cacheCalls[j].invokedOriginal) =>
            \E i \in 1..(j - 1) :
                /\ cacheCalls[i].method.name = cacheCalls[j].method.name
                /\ cacheCalls[i].key = cacheCalls[j].key
                /\ cacheCalls[i].invokedOriginal
                /\ cacheCalls[i].kind = "return"
                /\ cacheCalls[i].value = cacheCalls[j].value

(***************************************************************************)
(* Properties of a stream of debounced calls.                              *)
(***************************************************************************)
\* Every wrapper call so far came less than the delay after the one before
\* it, and less than the delay has passed since the last.
StreamGoesOn ==
    /\ Len(calls) >= 1
    /\ \A i \in 1..(Len(calls) - 1) : calls[i + 1].at - calls[i].at < ms
    /\ now - LastCall.at < ms

\* C22: while wrapper calls keep arriving with every gap shorter than the
\* delay, the original is not invoked, however long ago the first call was.
C22_DefersWhileCallsArrive ==
    StreamGoesOn => (invoked = <<>> /\ fired = <<>>)

\* C22 witness: in the legacy lab the first call was made longer ago than
\* the delay, calls kept arriving, and the original has still not run.
C22_Witness ==
    /\ lab = "legacy"
    /\ StreamGoesOn
    /\ Len(calls) >= 2
    /\ now - calls[1].at > ms
    /\ timers # {}
    /\ invoked = <<>>

(***************************************************************************)
(* Properties of SimpleSignal.                                             *)
(***************************************************************************)
\* The functions registered by the effect calls among the first n operations,
\* in the order of these calls.
RECURSIVE Registered(_)
Registered(n) ==
    IF n = 0 THEN <<>>
    ELSE IF signalLog[n].op = "effect"
         THEN Append(Registered(n - 1), signalLog[n].arg)
         ELSE Registered(n - 1)

\* The value the latest set among the first n operations was given.
RECURSIVE LastSet(_)
LastSet(n) ==
    IF n = 0 THEN InitialValue
    ELSE IF signalLog[n].op = "set" THEN signalLog[n].arg
         ELSE LastSet(n - 1)

C14_LabsEquivalent ==
    /\ twin.invoked = invoked
    /\ twin.uncaught = uncaught

\* What the two labs do agree on: one timer callback, and in the modern lab
\* one log line, for every invocation of the legacy lab.
TwinCallbacksAgree ==
    /\ Len(twin.console) = Len(invoked)
    /\ \A i \in 1..Len(invoked) : twin.console[i][4] = invoked[i].args

=============================================================================
